---- MODULE Spec2Model ----
(***************************************************************************)
(* sourcon: the Source RCON packet codec (src/src/packet.rs) and the       *)
(* client session (src/src/client.rs), as a state machine.                 *)
(*                                                                         *)
(* A byte is a number in 0..255.  A Rust String is the sequence of its     *)
(* UTF-8 bytes.  Option<String> is <<>> (None) or <<s>> (Some(s)).         *)
(* A RawPacket ([u8; 4096]) is held as the prefix that was written into a  *)
(* zero-filled array; the bytes after the prefix read as 0 (at).           *)
(*                                                                         *)
(* The transport is a pair of byte streams held in chunks, one chunk per   *)
(* packet written: a read takes whole chunks or, within a budget, a part   *)
(* of one; a write hands over a whole packet or, within the same budget,   *)
(* its first bytes.  The RCON server answers the packets in send order.    *)
(***************************************************************************)
EXTENDS Integers, Sequences, FiniteSets, TLC

VARIABLES
    overflow_checks,  \* build profile: TRUE = debug (overflow panics), FALSE = release (wraps)
    \* ---- codec harness (CodecSpec) ----
    packet,           \* the Packet last built by Packet::new, or NoPacket
    incoming,         \* the RawPacket handed to Packet::unpack (written prefix)
    unpacked,         \* what Packet::unpack(incoming) returned, or NoResult
    \* ---- client session (Spec) ----
    pc,               \* where the caller / the client is
    next_packet_id,   \* Client.next_packet_id
    command_packet,   \* execute: command_packet
    tracking_packet,  \* execute: tracking_packet
    responses,        \* execute: responses (Vec<Packet>)
    auth_result,      \* what Client::auth (under its timeout) returned, or NoResult
    result,           \* what connect or the last command returned; NoResult while a
                      \* command runs
    to_server,        \* bytes the transport took from the client, one chunk per write
    to_client,        \* bytes the server sent and the client has not read yet, in chunks
    splits,           \* how many reads and writes so far ended inside a packet
    commands,         \* how many commands the caller has issued
    faults,           \* how many commands ended on a transport fault or a timeout
    replies,          \* how many reply packets with a body the server has sent
    elapsed,          \* ticks from the call of connect / command to the start of the
                      \* timeout now running; once that timeout fired, to the return
    closed,           \* the peer has closed the connection
    empty_reads,      \* how many reads returned zero bytes
    \* ---- history (not read by the program) ----
    in_flight,        \* how many calls of command hold the &mut borrow of the Client
    io,               \* what the transport returned to the try_read / try_write the
                      \* operation last acted on: "Ok", "WouldBlock", "Fault"; "None"
                      \* before the first one and once the operation's timeout fired
    written,          \* the bytes the transport took in each of these writes
    execute_seen,     \* packets the command's loop decoded, in order
    failed,           \* some command on the session has ended in an error
    sent_log,         \* packets the operation (connect, or the last command) wrote
                      \* with write_to_stream returning Ok, in order
    auth_seen,        \* packets the handshake decoded, in order (until a command starts)
    served            \* bodies the server sent in reply to the current command packet

vars == << overflow_checks, packet, incoming, unpacked, pc, next_packet_id,
           command_packet, tracking_packet, responses, auth_result, result, to_server,
           to_client, splits, commands, faults, replies, elapsed, closed, empty_reads,
           in_flight, io, written, execute_seen, failed, sent_log, auth_seen, served >>

codec_vars == << packet, incoming, unpacked >>

session_vars == << pc, next_packet_id, command_packet, tracking_packet, responses,
                   auth_result, result, to_server, to_client, splits, commands, faults,
                   replies, elapsed, closed, empty_reads, in_flight, io, written,
                   execute_seen, failed, sent_log, auth_seen, served >>

----------------------------------------------------------------------------
(* Machine integers *)

I32Max == 2147483647

I32Min == -I32Max - 1

\* i32::to_le_bytes: the four two's-complement bytes, least significant first.
to_le_bytes(n) ==
    << n % 256, (n \div 256) % 256, (n \div 65536) % 256, (n \div 16777216) % 256 >>

\* i32::from_le_bytes
from_le_bytes(b) ==
    b[1] + 256 * b[2] + 65536 * b[3]
      + 16777216 * (IF b[4] >= 128 THEN b[4] - 256 ELSE b[4])

Concat(seqs) ==
    LET F[i \in 0..Len(seqs)] == IF i = 0 THEN <<>> ELSE F[i - 1] \o seqs[i]
    IN  F[Len(seqs)]

----------------------------------------------------------------------------
(* src/src/packet.rs *)

PacketTypes == {"Auth", "AuthResponse", "Exec", "Response"}

\* PacketType::to_le_bytes: the i32 type_value of each variant.
type_value(t) ==
    CASE t = "Auth" -> 3
      [] t = "Exec" -> 2
      [] t = "AuthResponse" -> 2
      [] t = "Response" -> 0

Ok(v) == [tag |-> "Ok", value |-> v]

Err(e) == [tag |-> "Err", err |-> e]

Panic(why) == [tag |-> "Panic", why |-> why]

UnknownPacketType(n) == [kind |-> "UnknownPacketType", code |-> n]

MalformedPacketBody == [kind |-> "MalformedPacketBody"]

\* try_into with code 2 resolved to Exec instead of AuthResponse
try_into_exec(n) ==
    CASE n = 3 -> Ok("Auth")
      [] n = 2 -> Ok("Exec")
      [] n = 0 -> Ok("Response")
      [] OTHER -> Err(UnknownPacketType(n))

\* impl TryInto<PacketType> for i32
try_into(n) ==
    CASE n = 3 -> Ok("Auth")
      [] n = 2 -> Ok("AuthResponse")
      [] n = 0 -> Ok("Response")
      [] OTHER -> Err(UnknownPacketType(n))

RawPacketLen == 4096

BASE_PACKET_SIZE == 10

BODY_OFFSET == 12

None == <<>>

Some(s) == <<s>>

unwrap_or(opt, default) == IF opt = None THEN default ELSE opt[1]

\* Packet::new
new(id, packet_type, body) ==
    [id |-> id, packet_type |-> packet_type, body |-> Some(body)]

\* size counting the id and the type but not the two terminator bytes
size_without_terminators(p) ==
    IF p.body = None THEN 8 ELSE Len(p.body[1]) + 8

\* Packet::size
size(p) ==
    IF p.body = None THEN BASE_PACKET_SIZE ELSE Len(p.body[1]) + BASE_PACKET_SIZE

\* Packet::pack
pack(p) ==
    to_le_bytes(size(p)) \o to_le_bytes(p.id) \o to_le_bytes(type_value(p.packet_type))
      \o unwrap_or(p.body, <<>>) \o <<0, 0>>

\* incoming[i] of the zero-filled array, i counted from 0
at(buf, i) == IF i < Len(buf) THEN buf[i + 1] ELSE 0

\* &incoming[lo..=lo+3]
header_field(buf, lo) == << at(buf, lo), at(buf, lo + 1), at(buf, lo + 2), at(buf, lo + 3) >>

\* size - Self::BASE_PACKET_SIZE in i32: overflows below I32Min + 10
body_size_of(sz) ==
    IF sz >= I32Min + BASE_PACKET_SIZE THEN Ok(sz - BASE_PACKET_SIZE)
    ELSE IF overflow_checks THEN Panic("attempt to subtract with overflow")
    ELSE Ok((sz - I32Min) + (I32Max - (BASE_PACKET_SIZE - 1)))

\* body_size as usize + Self::BODY_OFFSET on a 64-bit usize.  The cast sign-extends,
\* so a negative body_size is 2^64 - |body_size|: adding 12 overflows for -12..-1 and
\* is a number far above any index otherwise (huge).
last_elem_of(body_size) ==
    IF body_size >= 0
    THEN IF body_size <= I32Max - BODY_OFFSET
         THEN Ok([huge |-> FALSE, v |-> body_size + BODY_OFFSET])
         ELSE Ok([huge |-> TRUE, v |-> 0])
    ELSE IF body_size >= -BODY_OFFSET
         THEN IF overflow_checks THEN Panic("attempt to add with overflow")
              ELSE Ok([huge |-> FALSE, v |-> body_size + BODY_OFFSET])
         ELSE Ok([huge |-> TRUE, v |-> 0])

\* str::from_utf8: whether bytes s[i..] are well-formed UTF-8.  A run of ASCII
\* bytes is skipped in one step; b is the first byte from i on that is not ASCII.
RECURSIVE utf8_from(_, _)
utf8_from(s, i) ==
    LET n == Len(s)
        high == {j \in i..n : s[j] >= 128}
        k == CHOOSE j \in high : \A h \in high : j <= h
        b == s[k]
        cont(j) == j <= n /\ s[j] >= 128 /\ s[j] <= 191
        within(j, lo, hi) == j <= n /\ s[j] >= lo /\ s[j] <= hi
    IN  IF high = {} THEN TRUE
        ELSE IF b >= 194 /\ b <= 223 THEN cont(k + 1) /\ utf8_from(s, k + 2)
        ELSE IF b = 224 THEN within(k + 1, 160, 191) /\ cont(k + 2) /\ utf8_from(s, k + 3)
        ELSE IF (b >= 225 /\ b <= 236) \/ b = 238 \/ b = 239
             THEN cont(k + 1) /\ cont(k + 2) /\ utf8_from(s, k + 3)
        ELSE IF b = 237 THEN within(k + 1, 128, 159) /\ cont(k + 2) /\ utf8_from(s, k + 3)
        ELSE IF b = 240
             THEN within(k + 1, 144, 191) /\ cont(k + 2) /\ cont(k + 3) /\ utf8_from(s, k + 4)
        ELSE IF b >= 241 /\ b <= 243
             THEN cont(k + 1) /\ cont(k + 2) /\ cont(k + 3) /\ utf8_from(s, k + 4)
        ELSE IF b = 244
             THEN within(k + 1, 128, 143) /\ cont(k + 2) /\ cont(k + 3) /\ utf8_from(s, k + 4)
        ELSE FALSE

from_utf8(s) == IF utf8_from(s, 1) THEN Ok(s) ELSE Err(MalformedPacketBody)

\* &raw_body[..=last_elem], raw_body = &incoming[BODY_OFFSET..]: the last_elem + 1
\* bytes from offset 12 on; out of range when last_elem is no index of raw_body.
body_slice(buf, last_elem) ==
    IF last_elem.huge \/ last_elem.v >= RawPacketLen - BODY_OFFSET
    THEN Panic("range end index out of range for slice")
    ELSE Ok([i \in 1..(last_elem.v + 1) |-> at(buf, BODY_OFFSET + i - 1)])

\* the body expression of Packet::unpack (lines 113-117)
body_of(buf, last_elem) ==
    IF ~last_elem.huge /\ last_elem.v = BODY_OFFSET THEN Ok(None)
    ELSE LET raw == body_slice(buf, last_elem)
         IN  IF raw.tag = "Panic" THEN raw
             ELSE LET s == from_utf8(raw.value)
                  IN  IF s.tag = "Err" THEN s ELSE Ok(Some(s.value))

\* Packet::unpack
unpack(buf) ==
    LET sz == from_le_bytes(header_field(buf, 0))
        body_size == body_size_of(sz)
    IN  IF body_size.tag = "Panic" THEN body_size
        ELSE LET last_elem == last_elem_of(body_size.value)
             IN  IF last_elem.tag = "Panic" THEN last_elem
                 ELSE LET id == from_le_bytes(header_field(buf, 4))
                          packet_type == try_into(from_le_bytes(header_field(buf, 8)))
                      IN  IF packet_type.tag = "Err" THEN packet_type
                          ELSE LET body == body_of(buf, last_elem.value)
                               IN  IF body.tag # "Ok" THEN body
                                   ELSE Ok([id |-> id,
                                            packet_type |-> packet_type.value,
                                            body |-> body.value])

----------------------------------------------------------------------------
(* Bounds of the model *)

MaxBodyLen == 2      \* longest body text handed to Packet::new

MaxPayloadLen == 2   \* bytes after the header in a raw buffer handed to unpack

\* n-byte sequences over a byte alphabet, n <= max
SeqsUpTo(alphabet, max) == UNION {[1..n -> alphabet] : n \in 0..max}

\* &str values: well-formed UTF-8 only ('a', 'b', and the two bytes of U+00E9)
Texts == {s \in SeqsUpTo({97, 98, 195, 169}, MaxBodyLen) : utf8_from(s, 1)}

Ids == {-1, 0, 1, 2, 101}

\* size fields: both overflows, negative body sizes, no body, small bodies, a body
\* that runs past the buffer
SizeFields == {I32Min, -3, -2, 0, 9, 10, 11, 12, 4082, I32Max}

TypeCodes == {0, 2, 3, 1, 7, -1}

RawBuffers ==
    {to_le_bytes(sz) \o to_le_bytes(id) \o to_le_bytes(code) \o payload :
        sz \in SizeFields, id \in Ids, code \in TypeCodes,
        payload \in SeqsUpTo({0, 97, 195, 169, 255}, MaxPayloadLen)}

NoPacket == [tag |-> "NoPacket"]

NoResult == [tag |-> "NoResult"]

----------------------------------------------------------------------------
(* The codec on its own: build and pack a packet, or take raw bytes, then unpack *)

\* nothing has been packed or unpacked yet: each run of the codec takes one input
Fresh == packet = NoPacket /\ incoming = <<>> /\ unpacked = NoResult

\* Packet::new, then Packet::pack into a zero-filled RawPacket
NewAndPack ==
    /\ Fresh
    /\ \E t \in PacketTypes : \E id \in Ids : \E body \in Texts :
          /\ packet' = new(id, t, body)
          /\ incoming' = pack(packet')
    /\ unpacked' = NoResult
    /\ UNCHANGED << overflow_checks, session_vars >>

\* a packet that unpack returned without a body (the only packets whose body is None)
\* is packed again
Repack ==
    /\ unpacked.tag = "Ok"
    /\ unpacked.value.body = None
    /\ packet' = unpacked.value
    /\ incoming' = pack(packet')
    /\ unpacked' = NoResult
    /\ UNCHANGED << overflow_checks, session_vars >>

\* Server::process / read_from_stream: a read fills a zero-filled buffer with raw bytes
FillBuffer ==
    /\ Fresh
    /\ \E raw \in RawBuffers : incoming' = raw
    /\ packet' = NoPacket
    /\ unpacked' = NoResult
    /\ UNCHANGED << overflow_checks, session_vars >>

UnpackBuffer ==
    /\ unpacked = NoResult
    /\ unpacked' = unpack(incoming)
    /\ UNCHANGED << overflow_checks, packet, incoming, session_vars >>

CodecNext == NewAndPack \/ Repack \/ FillBuffer \/ UnpackBuffer

----------------------------------------------------------------------------

Init ==
    /\ overflow_checks \in BOOLEAN
    /\ packet = NoPacket
    /\ incoming = <<>>
    /\ unpacked = NoResult
    /\ pc = "Start"
    /\ next_packet_id = 0
    /\ command_packet = NoPacket
    /\ tracking_packet = NoPacket
    /\ responses = <<>>
    /\ auth_result = NoResult
    /\ result = NoResult
    /\ to_server = <<>>
    /\ to_client = <<>>
    /\ splits = 0
    /\ commands = 0
    /\ faults = 0
    /\ replies = 0
    /\ elapsed = 0
    /\ in_flight = 0
    /\ closed = FALSE
    /\ empty_reads = 0
    /\ io = "None"
    /\ written = <<>>
    /\ execute_seen = <<>>
    /\ failed = FALSE
    /\ sent_log = <<>>
    /\ auth_seen = <<>>
    /\ served = <<>>

----------------------------------------------------------------------------
(* src/src/client.rs *)

MaxReplies == 2      \* most reply packets with a body the server sends on one session

MaxCommands == 2     \* most command calls the caller makes on one session

MaxSplits == 1       \* most reads and writes that end inside a packet

MaxShortRead == 2    \* the bytes such a read or write takes, or such a read leaves

MaxFaults == 1       \* most commands that end on a transport fault or a timeout

TimeoutTicks == 2    \* the configured timeout (ClientBuilder.timeout), in ticks

MaxEmptyReads == 2   \* most reads that return zero bytes after the peer closed

\* "pw"
Password == <<112, 119>>

\* "status"
CommandTexts == {<<115, 116, 97, 116, 117, 115>>}

\* the body of the server's i-th reply packet to a command: "line1", "line2", ...
ReplyBody(i) == <<108, 105, 110, 101, 48 + i>>

UnreachableHost == [kind |-> "UnreachableHost"]

SendError == [kind |-> "SendError"]

ReceiveError == [kind |-> "ReceiveError"]

AuthenticationError == [kind |-> "AuthenticationError"]

TimeoutError == [kind |-> "TimeoutError"]

Continue == [tag |-> "Continue"]

\* the Client that connect returns; its fields are the session's variables
Client == [kind |-> "Client"]

\* the first n bytes of a stream of chunks, and the chunks left after them
RECURSIVE TakeBytes(_, _)
TakeBytes(stream, n) ==
    IF n = 0 \/ stream = <<>> THEN [bytes |-> <<>>, rest |-> stream]
    ELSE IF n >= Len(stream[1])
         THEN LET more == TakeBytes(Tail(stream), n - Len(stream[1]))
              IN  [bytes |-> stream[1] \o more.bytes, rest |-> more.rest]
         ELSE [bytes |-> SubSeq(stream[1], 1, n),
               rest |-> <<SubSeq(stream[1], n + 1, Len(stream[1]))>> \o Tail(stream)]

\* the byte counts at which a chunk of the stream ends
ChunkEnds(stream) ==
    {Len(Concat(SubSeq(stream, 1, j))) : j \in 1..Len(stream)}

\* stream.try_read(&mut buf) on a readable socket: Ok(n) with the n bytes that have
\* arrived, 1 <= n <= 4096: any number of whole packets the server sent, or, while
\* the model's budget of splits lasts, a part of the next one: its first
\* MaxShortRead bytes, or all but its last MaxShortRead
ReadCounts(stream) ==
    {n \in 1..Len(Concat(stream)) :
        /\ n <= RawPacketLen
        /\ \/ n \in ChunkEnds(stream)
           \/ /\ splits < MaxSplits
              /\ n < Len(stream[1])
              /\ n = MaxShortRead \/ Len(stream[1]) - n = MaxShortRead}

\* std::io::ErrorKind::WouldBlock, and an error of any other kind
WouldBlock == "WouldBlock"

ConnectionReset == "ConnectionReset"

\* the loop inside write_to_stream / read_from_stream goes round again
Retry == [tag |-> "Retry"]

\* what the transport returned, for the history variable io
io_kind(raw) ==
    IF raw.tag = "Ok" THEN "Ok" ELSE IF raw.err = WouldBlock THEN "WouldBlock" ELSE "Fault"

\* stream.try_read(&mut buf), every result: Ok(n) as in ReadCounts; with nothing to
\* read, Ok(0) once the peer has closed and WouldBlock before; an error of another
\* kind (which stands for a failing stream.readable() too)
try_read(stream) ==
    {Ok(n) : n \in ReadCounts(stream)}
      \cup (IF closed /\ stream = <<>> /\ empty_reads < MaxEmptyReads THEN {Ok(0)} ELSE {})
      \cup (IF ~closed /\ stream = <<>> THEN {Err(WouldBlock)} ELSE {})
      \cup {Err(ConnectionReset)}

\* read_turn with WouldBlock treated like any other error
read_turn_surfacing_would_block(raw, bytes) ==
    IF raw.tag = "Ok" THEN unpack(bytes) ELSE Err(ReceiveError)

\* Client::read_from_stream, one turn of its loop on what try_read returned into the
\* zero-filled buf: Ok(_) leaves the loop and unpacks buf, WouldBlock goes round
\* again, any other error is the ReceiveError
read_turn(raw, bytes) ==
    IF raw.tag = "Ok" THEN unpack(bytes)
    ELSE IF raw.err = WouldBlock THEN Retry
    ELSE Err(ReceiveError)

\* Client::read_from_stream with `stream` unread: every outcome of a turn of its
\* loop, with what is left unread
read_from_stream(stream) ==
    {[res |-> read_turn(raw, TakeBytes(stream, IF raw.tag = "Ok" THEN raw.value ELSE 0).bytes),
      rest |-> TakeBytes(stream, IF raw.tag = "Ok" THEN raw.value ELSE 0).rest,
      split |-> IF raw.tag = "Ok" /\ raw.value \notin ChunkEnds(stream) \cup {0} THEN 1 ELSE 0,
      empty |-> IF raw = Ok(0) THEN 1 ELSE 0,
      io |-> io_kind(raw)] : raw \in try_read(stream)}

\* stream.try_write(&bytes), every result: Ok(n) with the n >= 1 bytes the transport
\* took, all of them or, while the model's budget of splits lasts, the first
\* MaxShortRead; WouldBlock; an error of another kind (which stands for a failing
\* stream.writable() too)
try_write(bytes) ==
    {Ok(n) : n \in {Len(bytes)} \cup {k \in {MaxShortRead} : splits < MaxSplits /\ k < Len(bytes)}}
      \cup {Err(WouldBlock), Err(ConnectionReset)}

\* Client::write_to_stream, one turn of its loop on what try_write returned: Ok(_)
\* returns Ok(()), WouldBlock goes round again, any other error is the SendError
write_turn(raw) ==
    IF raw.tag = "Ok" THEN Ok("()")
    ELSE IF raw.err = WouldBlock THEN Retry
    ELSE Err(SendError)

\* Client::write_to_stream: every outcome of a turn of its loop, with the bytes the
\* transport took
write_to_stream(p) ==
    {[res |-> write_turn(raw),
      taken |-> IF raw.tag = "Ok" THEN SubSeq(pack(p), 1, raw.value) ELSE <<>>,
      split |-> IF raw.tag = "Ok" /\ raw.value < Len(pack(p)) THEN 1 ELSE 0,
      io |-> io_kind(raw)] : raw \in try_write(pack(p))}

\* create_packet with the increment after the packet is built (post-increment)
create_packet_then_increment(counter, text) ==
    [next_packet_id |-> counter + 1, packet |-> new(counter, "Exec", text)]

\* Client::create_packet: the new counter and the packet
create_packet(counter, text) ==
    [next_packet_id |-> counter + 1, packet |-> new(counter + 1, "Exec", text)]

\* Client::auth: auth_packet
auth_packet == new(1, "Auth", Password)

\* auth_loop without the test for id -1: a rejection is skipped like any other packet
auth_loop_without_rejection(response) ==
    IF response.tag # "Ok" THEN response
    ELSE IF response.value.id = auth_packet.id /\ response.value.packet_type = "AuthResponse"
         THEN Ok("auth complete")
         ELSE Continue

\* Client::auth, one turn of the loop on what read_from_stream returned
auth_loop(response) ==
    IF response.tag # "Ok" THEN response
    ELSE IF response.value.id = -1 THEN Err(AuthenticationError)
    ELSE IF response.value.id = auth_packet.id /\ response.value.packet_type = "AuthResponse"
         THEN Ok("auth complete")
         ELSE Continue

\* connect_returns with auth's error dropped (one `?` instead of two): a Client is
\* built whatever auth returned
connect_returns_ignoring_error(authed) ==
    CASE authed.tag \in {"Ok", "Err"} ->
             [pc |-> "Ready", result |-> Ok(Client), next_packet_id |-> 100]
      [] authed.tag = "Panic" -> [pc |-> "Panicked", result |-> authed, next_packet_id |-> 0]

\* ClientBuilder::connect after Client::auth returned: where the caller is
connect_returns(authed) ==
    CASE authed.tag = "Ok" -> [pc |-> "Ready", result |-> Ok(Client), next_packet_id |-> 100]
      [] authed.tag = "Err" -> [pc |-> "Disconnected", result |-> authed, next_packet_id |-> 0]
      [] authed.tag = "Panic" -> [pc |-> "Panicked", result |-> authed, next_packet_id |-> 0]

\* Client::execute, after the loop: the Response
response_of(packets) ==
    Ok([kind |-> "Response", body |-> Concat([i \in 1..Len(packets) |-> unwrap_or(packets[i].body, <<>>)])])

\* or_return that goes on whatever write_to_stream returned
or_return_unchecked(res, next) == next

\* Client::execute, the `?` on what write_to_stream returned: where execute goes on,
\* or "Ready" when it returns the error to the caller
or_return(res, next) == IF res.tag = "Ok" THEN next ELSE "Ready"

\* execute_loop that ends on the command packet's id
execute_loop_on_command_id(response, collected) ==
    IF response.tag # "Ok" THEN response
    ELSE IF response.value.id = command_packet.id THEN response_of(collected)
    ELSE Continue

\* Client::execute, one turn of the loop on what read_from_stream returned, with the
\* packets collected so far: the error, the Response when the packet has the
\* tracking packet's id, or Continue for a packet to push
execute_loop(response, collected) ==
    IF response.tag # "Ok" THEN response
    ELSE IF response.value.id = tracking_packet.id THEN response_of(collected)
    ELSE Continue

\* ClientBuilder::connect: timeout(self.timeout, TcpStream::connect(host)), which takes
\* d < TimeoutTicks ticks to open the transport or to fail, or is cut off after
\* TimeoutTicks
Connect ==
    /\ pc = "Start"
    /\ \E d \in 0..TimeoutTicks :
          /\ elapsed' = d
          /\ \/ d < TimeoutTicks /\ pc' = "auth_write" /\ UNCHANGED result
             \/ d < TimeoutTicks /\ pc' = "Disconnected" /\ result' = Err(UnreachableHost)
             \/ d = TimeoutTicks /\ pc' = "Disconnected" /\ result' = Err(TimeoutError)
    /\ UNCHANGED << overflow_checks, codec_vars, in_flight, replies, faults, next_packet_id,
                    command_packet, tracking_packet, responses, auth_result, to_server,
                    to_client, splits, commands, sent_log, auth_seen, served, io,
                    closed, empty_reads, written, execute_seen, failed >>

\* Client::auth: write_to_stream(&auth_packet), one turn of its loop
AuthWrite ==
    /\ pc = "auth_write"
    /\ \E w \in write_to_stream(auth_packet) :
          /\ io' = w.io
          /\ splits' = splits + w.split
          /\ IF w.res = Retry
             THEN UNCHANGED << to_server, written, sent_log, pc, auth_result, result,
                               next_packet_id >>
             ELSE IF w.res.tag = "Ok"
             THEN /\ to_server' = Append(to_server, w.taken)
                  /\ written' = Append(written, w.taken)
                  /\ sent_log' = Append(sent_log, auth_packet)
                  /\ pc' = "auth_read"
                  /\ UNCHANGED << auth_result, result, next_packet_id >>
             ELSE /\ auth_result' = w.res
                  /\ pc' = connect_returns(w.res).pc
                  /\ result' = connect_returns(w.res).result
                  /\ next_packet_id' = connect_returns(w.res).next_packet_id
                  /\ UNCHANGED << to_server, written, sent_log >>
    /\ UNCHANGED << overflow_checks, codec_vars, in_flight, elapsed, replies, faults,
                    command_packet, tracking_packet, responses, to_client, commands,
                    auth_seen, served, closed, empty_reads, execute_seen, failed >>

\* Client::auth: one turn of the loop, and connect's return when the loop ends
AuthRead ==
    /\ pc = "auth_read"
    /\ \E r \in read_from_stream(to_client) :
          LET step == IF r.res = Retry THEN Continue ELSE auth_loop(r.res)
          IN  /\ io' = r.io
              /\ to_client' = r.rest
              /\ splits' = splits + r.split
              /\ empty_reads' = empty_reads + r.empty
              /\ auth_seen' = IF r.res.tag = "Ok" THEN Append(auth_seen, r.res.value)
                              ELSE auth_seen
              /\ IF step = Continue
                 THEN UNCHANGED << pc, auth_result, result, next_packet_id >>
                 ELSE /\ auth_result' = step
                      /\ pc' = connect_returns(step).pc
                      /\ result' = connect_returns(step).result
                      /\ next_packet_id' = connect_returns(step).next_packet_id
    /\ UNCHANGED << overflow_checks, codec_vars, in_flight, elapsed, replies, faults,
                    command_packet, tracking_packet, responses, to_server, commands,
                    sent_log, served, closed, written, execute_seen, failed >>

\* timeout(self.timeout, Client::auth(..)) elapses while auth waits on the socket:
\* TimeoutTicks after this second timeout of connect was started
AuthElapsed ==
    /\ pc \in {"auth_write", "auth_read"}
    /\ elapsed' = elapsed + TimeoutTicks
    /\ io' = "None"
    /\ auth_result' = Err(TimeoutError)
    /\ pc' = connect_returns(Err(TimeoutError)).pc
    /\ result' = connect_returns(Err(TimeoutError)).result
    /\ next_packet_id' = connect_returns(Err(TimeoutError)).next_packet_id
    /\ UNCHANGED << overflow_checks, codec_vars, in_flight, replies, faults, command_packet,
                    tracking_packet, responses, to_server, to_client, splits, commands,
                    sent_log, auth_seen, served, closed, empty_reads, written,
                    execute_seen, failed >>

\* command with &mut self accepted though an earlier call is still reading
command_accepted_while_reading(where) == where \in {"Ready", "execute_read"}

\* command refused once a command has failed on the session (a poison flag)
command_accepted_unless_failed(where) == where = "Ready" /\ ~failed

\* Client::command(&mut self, ..): the call compiles and runs only where no earlier
\* call's future still borrows the Client, that is, where the caller has the
\* Client back
command_accepted(where) == where = "Ready"

\* Client::command -> Client::execute: the two create_packet calls
Command ==
    /\ command_accepted(pc)
    /\ commands < MaxCommands
    /\ \E text \in CommandTexts :
          LET first == create_packet(next_packet_id, text)
              second == create_packet(first.next_packet_id, <<>>)
          IN  /\ command_packet' = first.packet
              /\ tracking_packet' = second.packet
              /\ next_packet_id' = second.next_packet_id
    /\ commands' = commands + 1
    /\ responses' = <<>>
    /\ served' = <<>>
    /\ execute_seen' = <<>>
    /\ sent_log' = <<>>
    /\ written' = <<>>
    /\ auth_seen' = <<>>
    /\ result' = NoResult
    /\ io' = "None"
    /\ elapsed' = 0
    /\ in_flight' = in_flight + 1
    /\ pc' = "execute_write_command"
    /\ UNCHANGED << overflow_checks, codec_vars, replies, faults, auth_result, to_server,
                    to_client, splits, closed, empty_reads, failed >>

\* Client::execute: write_to_stream(&command_packet), one turn of its loop
ExecuteWriteCommand ==
    /\ pc = "execute_write_command"
    /\ \E w \in write_to_stream(command_packet) :
          /\ io' = w.io
          /\ splits' = splits + w.split
          /\ IF w.res = Retry
             THEN UNCHANGED << to_server, written, sent_log, pc, result, faults, failed,
                               in_flight >>
             ELSE /\ w.res.tag = "Err" => faults < MaxFaults
                  /\ faults' = IF w.res.tag = "Err" THEN faults + 1 ELSE faults
                  /\ to_server' = IF w.res.tag = "Ok" /\ ~closed THEN Append(to_server, w.taken)
                                  ELSE to_server
                  /\ written' = IF w.res.tag = "Ok" THEN Append(written, w.taken)
                                ELSE written
                  /\ sent_log' = IF w.res.tag = "Ok" THEN Append(sent_log, command_packet)
                                 ELSE sent_log
                  /\ pc' = or_return(w.res, "execute_write_tracking")
                  /\ result' = IF w.res.tag = "Err" THEN w.res ELSE result
                  /\ failed' = (failed \/ w.res.tag = "Err")
                  /\ in_flight' = IF pc' = "Ready" THEN in_flight - 1 ELSE in_flight
    /\ UNCHANGED << overflow_checks, codec_vars, elapsed, replies, next_packet_id,
                    command_packet, tracking_packet, responses, auth_result, to_client,
                    commands, auth_seen, served, closed, empty_reads, execute_seen >>

\* Client::execute: write_to_stream(&tracking_packet), one turn of its loop
ExecuteWriteTracking ==
    /\ pc = "execute_write_tracking"
    /\ \E w \in write_to_stream(tracking_packet) :
          /\ io' = w.io
          /\ splits' = splits + w.split
          /\ IF w.res = Retry
             THEN UNCHANGED << to_server, written, sent_log, pc, result, faults, failed,
                               in_flight >>
             ELSE /\ w.res.tag = "Err" => faults < MaxFaults
                  /\ faults' = IF w.res.tag = "Err" THEN faults + 1 ELSE faults
                  /\ to_server' = IF w.res.tag = "Ok" /\ ~closed THEN Append(to_server, w.taken)
                                  ELSE to_server
                  /\ written' = IF w.res.tag = "Ok" THEN Append(written, w.taken)
                                ELSE written
                  /\ sent_log' = IF w.res.tag = "Ok" THEN Append(sent_log, tracking_packet)
                                 ELSE sent_log
                  /\ pc' = or_return(w.res, "execute_read")
                  /\ result' = IF w.res.tag = "Err" THEN w.res ELSE result
                  /\ failed' = (failed \/ w.res.tag = "Err")
                  /\ in_flight' = IF pc' = "Ready" THEN in_flight - 1 ELSE in_flight
    /\ UNCHANGED << overflow_checks, codec_vars, elapsed, replies, next_packet_id,
                    command_packet, tracking_packet, responses, auth_result, to_client,
                    commands, auth_seen, served, closed, empty_reads, execute_seen >>

\* Client::execute: one turn of the loop, and the Response when the loop ends
ExecuteRead ==
    /\ pc = "execute_read"
    /\ \E r \in read_from_stream(to_client) :
          LET step == IF r.res = Retry THEN Retry ELSE execute_loop(r.res, responses)
              returned == step \notin {Retry, Continue}
          IN  /\ r.res = Err(ReceiveError) => faults < MaxFaults
              /\ faults' = IF r.res = Err(ReceiveError) THEN faults + 1 ELSE faults
              /\ io' = r.io
              /\ to_client' = r.rest
              /\ splits' = splits + r.split
              /\ empty_reads' = empty_reads + r.empty
              /\ execute_seen' = IF r.res.tag = "Ok" THEN Append(execute_seen, r.res.value)
                                 ELSE execute_seen
              /\ responses' = IF step = Continue THEN Append(responses, r.res.value)
                              ELSE responses
              /\ pc' = IF ~returned THEN pc
                       ELSE IF step.tag = "Panic" THEN "Panicked" ELSE "Ready"
              /\ result' = IF returned THEN step ELSE result
              /\ failed' = (failed \/ (returned /\ step.tag # "Ok"))
              /\ in_flight' = IF returned THEN in_flight - 1 ELSE in_flight
    /\ UNCHANGED << overflow_checks, codec_vars, elapsed, replies, next_packet_id,
                    command_packet, tracking_packet, auth_result, to_server, commands,
                    sent_log, auth_seen, served, closed, written >>

\* timeout(self.timeout, self.execute(command)) elapses while execute waits on the socket
ExecuteElapsed ==
    /\ pc \in {"execute_write_command", "execute_write_tracking", "execute_read"}
    /\ faults < MaxFaults
    /\ faults' = faults + 1
    /\ elapsed' = elapsed + TimeoutTicks
    /\ result' = Err(TimeoutError)
    /\ io' = "None"
    /\ failed' = TRUE
    /\ pc' = "Ready"
    /\ in_flight' = in_flight - 1
    /\ UNCHANGED << overflow_checks, codec_vars, replies, next_packet_id, command_packet,
                    tracking_packet, responses, auth_result, to_server, to_client,
                    splits, commands, sent_log, auth_seen, served, closed,
                    empty_reads, written, execute_seen >>

----------------------------------------------------------------------------
(* The RCON server at the other end of the connection *)

\* the server's reply packets, as the bytes it sends
Reply(id, packet_type, body) == pack(new(id, packet_type, body))

\* the bytes are one whole packet: the size field counts all the bytes after it
WholePacket(bytes) ==
    /\ Len(bytes) >= 4 + BASE_PACKET_SIZE
    /\ from_le_bytes(SubSeq(bytes, 1, 4)) = Len(bytes) - 4

\* The server takes the next packet the client wrote and answers it: an Auth packet
\* with an optional empty Response and then an AuthResponse carrying the packet's id
\* (accepted) or -1 (rejected); an Exec packet with an empty body with one empty
\* Response carrying its id; any other Exec packet with Response packets carrying
\* its id, at most MaxReplies of them over the whole session.  Bytes that are not a
\* whole packet leave the server waiting for the rest: it answers nothing more.
\* The client sees an answer only when it reads, so the answers are taken while it
\* is reading.
ServerAnswers ==
    /\ to_server # <<>>
    /\ ~closed
    /\ pc \in {"auth_read", "execute_read"}
    /\ WholePacket(to_server[1])
    /\ LET request == to_server[1]
           id == from_le_bytes(SubSeq(request, 5, 8))
           code == from_le_bytes(SubSeq(request, 9, 12))
           body == SubSeq(request, 13, Len(request) - 2)
       IN  IF code = 3
           THEN /\ \E accepted \in BOOLEAN, empty_first \in BOOLEAN :
                      to_client' = to_client
                          \o (IF empty_first THEN <<Reply(id, "Response", <<>>)>> ELSE <<>>)
                          \o <<Reply(IF accepted THEN id ELSE -1, "AuthResponse", <<>>)>>
                /\ UNCHANGED << served, replies >>
           ELSE IF body = <<>>
           THEN /\ to_client' = Append(to_client, Reply(id, "Response", <<>>))
                /\ UNCHANGED << served, replies >>
           ELSE \E k \in 0..(MaxReplies - replies) :
                    /\ to_client' = to_client
                          \o [i \in 1..k |-> Reply(id, "Response", ReplyBody(i))]
                    /\ served' = [i \in 1..k |-> ReplyBody(i)]
                    /\ replies' = replies + k
    /\ to_server' = Tail(to_server)
    /\ UNCHANGED << overflow_checks, codec_vars, in_flight, elapsed, faults, pc,
                    next_packet_id, command_packet, tracking_packet, responses,
                    auth_result, result, splits, commands, sent_log, auth_seen, io,
                    closed, empty_reads, written, execute_seen, failed >>

\* The server closes the connection while the client is reading.  The client's reads
\* return zero bytes only after all that was sent before, so the close is taken
\* where nothing is left unread; what the server had not taken is never answered.
PeerCloses ==
    /\ pc \in {"auth_read", "execute_read"}
    /\ ~closed
    /\ to_client = <<>>
    /\ closed' = TRUE
    /\ to_server' = <<>>
    /\ UNCHANGED << overflow_checks, codec_vars, in_flight, elapsed, replies, faults, pc,
                    next_packet_id, command_packet, tracking_packet, responses,
                    auth_result, result, to_client, splits, commands,
                    sent_log, auth_seen, served, io, empty_reads, written,
                    execute_seen, failed >>

Next ==
    \/ Connect
    \/ AuthWrite
    \/ AuthRead
    \/ AuthElapsed
    \/ Command
    \/ ExecuteWriteCommand
    \/ ExecuteWriteTracking
    \/ ExecuteRead
    \/ ExecuteElapsed
    \/ ServerAnswers
    \/ PeerCloses

Spec == Init /\ [][Next]_vars

----------------------------------------------------------------------------
(* Claims about the client session, checked under Spec *)

\* a Client has been returned to the caller
ClientExists ==
    pc \in {"Ready", "execute_write_command", "execute_write_tracking", "execute_read"}

\* the server, still connected, has answered every packet the client wrote
ServerCaughtUp == to_server = <<>> /\ ~closed

\* C1: a command that returns Ok on a fresh session, each of its reads having taken
\* one packet the server sent, returns the bodies of the packets sent before the
\* tracking packet's echo, concatenated in order with nothing added ("line1" then
\* "line2" give "line1line2").
C1_Reassembly ==
    ( /\ pc = "Ready"
      /\ commands = 1
      /\ result.tag = "Ok"
      /\ result.value.kind = "Response"
      /\ splits = 0
      /\ ServerCaughtUp
      /\ to_client = <<>>
      /\ Len(responses) = Len(served) ) =>
        result.value.body = Concat(served)

\* C2: on a fresh session whose reads all ended at packet boundaries, once the
\* server has answered both packets of a command, the command is not left waiting
\* with nothing more to read: it has seen the tracking packet's echo and returned.
C2_EchoDetected ==
    ~( /\ pc = "execute_read"
       /\ commands = 1
       /\ splits = 0
       /\ ServerCaughtUp
       /\ to_client = <<>> )

\* C3: by the time the handshake reads, the client has written the Auth packet with
\* id 1 and then the sentinel Exec packet with id 2 and an empty body, and the
\* handshake completes on a packet whose id is the sentinel's.
C3_SentinelHandshake ==
    /\ pc = "auth_read" =>
          sent_log = << [id |-> 1, packet_type |-> "Auth", body |-> <<Password>>],
                        [id |-> 2, packet_type |-> "Exec", body |-> << <<>> >>] >>
    /\ auth_result.tag = "Ok" =>
          /\ auth_seen # <<>>
          /\ auth_seen[Len(auth_seen)].id = 2

C5_ReadyOnlyAfterHandshake ==
    /\ (ClientExists \/ next_packet_id # 0 \/ commands # 0) => auth_result.tag = "Ok"
    /\ (ClientExists /\ commands = 0) =>
          /\ auth_result.tag = "Ok"
          /\ auth_seen # <<>>
          /\ auth_seen[Len(auth_seen)].id = 1
          /\ auth_seen[Len(auth_seen)].packet_type = "AuthResponse"
          /\ \A i \in 1..Len(auth_seen) : auth_seen[i].id # -1
    /\ auth_result.tag \in {"Err", "Panic"} =>
          /\ ~ClientExists
          /\ result = auth_result
    /\ pc = "Disconnected" =>
          /\ result.tag = "Err"
          /\ result.err.kind \in {"UnreachableHost", "SendError", "ReceiveError",
                                  "AuthenticationError", "TimeoutError",
                                  "UnknownPacketType", "MalformedPacketBody"}
    /\ \A i \in 1..Len(sent_log) :
          sent_log[i].packet_type = "Exec" => auth_result.tag = "Ok"

\* the handshake timed out after it had decoded and skipped a packet and read all
\* the server sent, and connect returned the timeout without a Client
C5_Witness ==
    /\ pc = "Disconnected"
    /\ auth_result = Err(TimeoutError)
    /\ Len(auth_seen) = 1
    /\ ServerCaughtUp
    /\ to_client = <<>>
    /\ result = auth_result
    /\ next_packet_id = 0

\* C11: connect as a whole (opening the transport and the handshake together) and
\* each command last at most the configured timeout from call to return, and an
\* operation cut off by its timeout returns TimeoutError.
C11_OneTimeoutPerOperation == elapsed <= TimeoutTicks

\* a call of command is running
Executing == pc \in {"execute_write_command", "execute_write_tracking", "execute_read"}

\* C12: at most one command is in flight on a session: no call of command starts,
\* and so none of its packets is written, while an earlier call is still writing or
\* collecting replies; while a command collects, the last packets written are its own.
C12_SingleOutstanding ==
    /\ in_flight \in {0, 1}
    /\ in_flight = 1 <=> Executing
    /\ pc = "execute_read" =>
          /\ Len(sent_log) >= 2
          /\ sent_log[Len(sent_log) - 1] = command_packet
          /\ sent_log[Len(sent_log)] = tracking_packet
    /\ \A i \in 1..Len(sent_log) : sent_log[i].id <= IF commands = 0 THEN 1 ELSE tracking_packet.id

\* the second command writes its packets after the first one returned a Response
C12_Witness ==
    /\ commands = 2
    /\ pc = "execute_write_tracking"
    /\ in_flight = 1
    /\ ~failed
    /\ sent_log = <<command_packet>>

\* C13: the session's counter starts at 100, above the handshake's id; the n-th
\* command takes the ids 99 + 2n for its command packet and 100 + 2n for its tracking
\* packet (101 and 102 for the first), whether the commands before it succeeded or
\* failed, so the ids written on the session strictly increase and none is used twice.
C13_IdAllocation ==
    auth_result.tag = "Ok" =>
        /\ next_packet_id = 100 + 2 * commands
        /\ commands > 0 =>
              /\ command_packet = new(99 + 2 * commands, "Exec", command_packet.body[1])
              /\ tracking_packet = new(100 + 2 * commands, "Exec", <<>>)
              /\ tracking_packet.id = command_packet.id + 1
        /\ \A i \in 1..Len(sent_log) :
              /\ sent_log[i].packet_type = "Exec" => sent_log[i].id > 100
              /\ \A j \in 1..(i - 1) : sent_log[j].id < sent_log[i].id

\* the second command, issued after the first one failed, has written the ids 103
\* and 104
C13_Witness ==
    /\ commands = 2
    /\ failed
    /\ pc = "execute_read"
    /\ command_packet.id = 103
    /\ tracking_packet.id = 104
    /\ sent_log[Len(sent_log)] = tracking_packet

C15_WriteOrder ==
    commands > 0 =>
        /\ sent_log \in {<<>>, <<command_packet>>, <<command_packet, tracking_packet>>}
        /\ pc = "execute_write_command" => sent_log = <<>>
        /\ pc = "execute_write_tracking" => sent_log = <<command_packet>>
        /\ pc = "execute_read" => sent_log = <<command_packet, tracking_packet>>
        /\ execute_seen # <<>> => sent_log = <<command_packet, tracking_packet>>
        /\ (pc = "Ready" /\ Len(sent_log) < 2) => result \in {Err(SendError), Err(TimeoutError)}

\* the write of the command packet failed: SendError, and nothing was written
C15_Witness ==
    /\ commands = 1
    /\ pc = "Ready"
    /\ result = Err(SendError)
    /\ sent_log = <<>>
    /\ to_server = <<>>

\* C16: a command that ended in a timeout or an error leaves the session where it
\* accepts the next command: nothing marks it as unusable.
C16_NoPoisonFlag ==
    /\ (failed /\ pc # "Panicked") => (pc = "Ready" \/ Executing)
    /\ (failed /\ pc = "Ready") => command_accepted(pc)

\* cross-talk: after the first command failed, the second one returned a Response
\* that holds "line1" from a packet the server sent in reply to the first (id 101)
C16_Witness ==
    /\ commands = 2
    /\ failed
    /\ pc = "Ready"
    /\ result.tag = "Ok"
    /\ command_packet.id = 103
    /\ \E i \in 1..Len(responses) :
          /\ responses[i].id = 101
          /\ SubSeq(responses[i].body[1], 1, 5) = ReplyBody(1)
          /\ SubSeq(result.value.body, 1, 5) = ReplyBody(1)

\* C17: WouldBlock from try_write or try_read never ends an operation: the operation
\* is still running after it, and SendError and ReceiveError are returned only on a
\* transport error of another kind.
C17_WouldBlockRetried ==
    /\ io = "WouldBlock" =>
          /\ pc \in {"auth_write", "auth_read"} \/ Executing
          /\ result = NoResult
    /\ result \in {Err(SendError), Err(ReceiveError)} => io = "Fault"
    /\ auth_result \in {Err(SendError), Err(ReceiveError)} => io = "Fault"

\* a read returned WouldBlock after the command had collected a packet, and the
\* command is still reading
C17_Witness ==
    /\ io = "WouldBlock"
    /\ pc = "execute_read"
    /\ Len(responses) = 1

\* C18: when every command on the session so far has returned a Response, the last
\* one returned with nothing left unread and nothing unanswered, and every packet in
\* its Response has its command packet's id.
C18_Correlation ==
    (pc = "Ready" /\ commands > 0 /\ ~failed /\ result.tag = "Ok") =>
        /\ to_client = <<>>
        /\ to_server = <<>>
        /\ \A i \in 1..Len(responses) : responses[i].id = command_packet.id

\* C19: for every write_to_stream that returned Ok, the transport took the whole
\* encoding of the packet, once, so the server is never handed part of a packet.
C19_WholePacketWritten ==
    /\ Len(written) = Len(sent_log)
    /\ \A i \in 1..Len(sent_log) : written[i] = pack(sent_log[i])
    /\ \A i \in 1..Len(to_server) : WholePacket(to_server[i])

\* C20: on a session whose reads and writes were all whole packets, a read that
\* returns zero bytes after the peer closed ends the operation with
\* an error: unpack's outcome on the buffer nothing was read into is neither handed
\* to the handshake's or the command's loop as a packet nor the way the operation
\* ends.
C20_PeerCloseIsAnError ==
    (empty_reads > 0 /\ splits = 0) =>
        /\ \A i \in 1..Len(auth_seen) : Ok(auth_seen[i]) # unpack(<<>>)
        /\ \A i \in 1..Len(execute_seen) : Ok(execute_seen[i]) # unpack(<<>>)
        /\ result # unpack(<<>>)

----------------------------------------------------------------------------
(* Claims about the codec, checked under CodecSpec *)

\* the size field of the buffer handed to unpack
SizeField == from_le_bytes(header_field(incoming, 0))

\* the type code of the buffer handed to unpack
TypeField == from_le_bytes(header_field(incoming, 8))

\* the declared body: the SizeField - 10 bytes from offset 12 on
DeclaredBody == [i \in 1..(SizeField - BASE_PACKET_SIZE) |-> at(incoming, BODY_OFFSET + i - 1)]

\* the buffer's written bytes up to the end of the declared body
HeaderAndBody ==
    LET n == BODY_OFFSET + (SizeField - BASE_PACKET_SIZE)
    IN  SubSeq(incoming, 1, IF n < Len(incoming) THEN n ELSE Len(incoming))

\* a header with a known type and a declared body of at least one byte, all of it
\* among the bytes written into the buffer
SaneHeader ==
    /\ TypeField \in {0, 2, 3}
    /\ SizeField > BASE_PACKET_SIZE
    /\ SizeField - BASE_PACKET_SIZE <= Len(incoming) - BODY_OFFSET

\* C6: unpack(pack(p)), the packed bytes lying in a zero-filled buffer, gives back
\* p's id, type and body (an empty body and no body both being "no content").
C6_RoundTrip ==
    (packet # NoPacket /\ unpacked # NoResult) =>
        /\ unpacked.tag = "Ok"
        /\ unpacked.value.id = packet.id
        /\ unpacked.value.packet_type = packet.packet_type
        /\ unwrap_or(unpacked.value.body, <<>>) = unwrap_or(packet.body, <<>>)

\* C7: unpack never panics; a size field whose body length is negative or whose body
\* would run past the buffer makes it return an error.
C7_DecodeTotal ==
    unpacked # NoResult =>
        /\ unpacked.tag \in {"Ok", "Err"}
        /\ (SizeField < BASE_PACKET_SIZE \/ SizeField > RawPacketLen - 2) => unpacked.tag = "Err"

\* C8: the packed bytes are size . id . type code . body . 0 0, each header field
\* four little-endian bytes, with size = body length + 10 = total length - 4.
C8_EncodedLayout ==
    packet # NoPacket =>
        LET body == IF packet.body = None THEN <<>> ELSE packet.body[1]
            n == Len(body)
            code == CASE packet.packet_type = "Auth" -> 3
                      [] packet.packet_type \in {"Exec", "AuthResponse"} -> 2
                      [] packet.packet_type = "Response" -> 0
        IN  /\ Len(incoming) = 4 + 4 + 4 + n + 2
            /\ \A i \in 1..Len(incoming) : incoming[i] \in 0..255
            /\ from_le_bytes(SubSeq(incoming, 1, 4)) = n + 10
            /\ from_le_bytes(SubSeq(incoming, 1, 4)) = Len(incoming) - 4
            /\ from_le_bytes(SubSeq(incoming, 5, 8)) = packet.id
            /\ from_le_bytes(SubSeq(incoming, 9, 12)) = code
            /\ SubSeq(incoming, 13, 12 + n) = body
            /\ incoming[13 + n] = 0
            /\ incoming[14 + n] = 0

\* a packet with a two-byte body and a negative id has been packed
C8_Witness ==
    /\ packet # NoPacket
    /\ packet.id = -1
    /\ packet.body = Some(<<195, 169>>)
    /\ Len(incoming) = 16

\* unpack stopped in the arithmetic on the size field (lines 102-103), before it
\* looked at the type code
StoppedOnSize ==
    /\ unpacked.tag = "Panic"
    /\ unpacked.why \in {"attempt to subtract with overflow", "attempt to add with overflow"}

\* C9: where unpack decodes the type code, 3 gives Auth, 2 gives AuthResponse (never
\* Exec) and 0 gives Response, and any other code makes unpack return
\* UnknownPacketType with that code.  (A debug build that aborts on an overflowing
\* size field never decodes the type code: StoppedOnSize.)
C9_TypeDecode ==
    (unpacked # NoResult /\ ~StoppedOnSize) =>
        /\ TypeField \notin {0, 2, 3} =>
              unpacked = [tag |-> "Err", err |-> [kind |-> "UnknownPacketType", code |-> TypeField]]
        /\ TypeField \in {0, 2, 3} =>
              ~(unpacked.tag = "Err" /\ unpacked.err.kind = "UnknownPacketType")
        /\ unpacked.tag = "Ok" =>
              /\ TypeField = 3 => unpacked.value.packet_type = "Auth"
              /\ TypeField = 2 => unpacked.value.packet_type = "AuthResponse"
              /\ TypeField = 0 => unpacked.value.packet_type = "Response"
              /\ TypeField \in {0, 2, 3}

\* a packet packed as Exec came back as AuthResponse
C9_Witness ==
    /\ packet # NoPacket
    /\ packet.packet_type = "Exec"
    /\ unpacked.tag = "Ok"
    /\ unpacked.value.packet_type = "AuthResponse"

\* C10: with a sane header, a declared body that is not UTF-8 makes unpack return
\* MalformedPacketBody (no panic, no packet), and the bytes after the declared body
\* do not matter: the outcome is that of the same buffer with those bytes zeroed.
C10_BodyOnly ==
    (unpacked # NoResult /\ SaneHeader) =>
        /\ ~utf8_from(DeclaredBody, 1) => unpacked = Err(MalformedPacketBody)
        /\ unpacked = unpack(HeaderAndBody)

CodecSpec == Init /\ [][CodecNext]_vars

====
